---- MODULE Spec2Model ----
(***************************************************************************)
(* Model of the chunked dispatch of CelbuxHelpers: WriteToDatastore and    *)
(* sendRequest (celbuxhelpers.go).  One invocation of WriteToDatastore is  *)
(* a walk over request.Entities, one action per loop iteration, followed   *)
(* by the post-loop flush.  The caller may invoke the function again with  *)
(* the same request.                                                       *)
(*                                                                         *)
(* The HTTP client is the environment: client.Do either returns a          *)
(* transport error or a response with some status.  Entities are byte      *)
(* blobs ([]byte), so json.Marshal cannot fail on them; LogError needs     *)
(* the ErrorClient that IntialiseClients creates at start up.              *)
(***************************************************************************)
EXTENDS Integers, Sequences, FiniteSets, TLC

\* ---- bounds of the model ----
MaxEntities == 3
MaxInvocations == 2

\* ---- program constants ----
Divisor == 8000000
Threshold == 31
Ceiling == 31000000

\* Byte blobs the caller may pass: data stands for the content, len for len(entity.([]byte)).
EntityPool ==
  { [data |-> "a", len |-> 10000000],
    [data |-> "b", len |-> 10000000],
    [data |-> "c", len |-> 15000000],
    [data |-> "d", len |-> 124000000],
    [data |-> "e", len |-> 248000000] }

Kinds == {"Member"}
ProjectIDs == {"", "jiraonthego"}
Statuses == {200, 500}

VARIABLES
  request,      \* the QueueServiceRequest passed by the caller
  env,          \* value of GOOGLE_CLOUD_PROJECT
  pc,           \* "loop": in WriteToDatastore, "done": returned
  i,            \* index of the entity the range loop handles next
  inOperation,  \* var inOperation bool
  bits,         \* var bits int
  queue,        \* queueServiceRequest.Entities
  err,          \* the value WriteToDatastore returned
  sendLog,      \* the sendRequest calls of this invocation, with their outcome
  flushedAt,    \* indexes whose iteration took the flush branch
  reported,     \* errors handed to LogError
  calls         \* the finished earlier invocations

vars == <<request, env, pc, i, inOperation, bits, queue, err, sendLog,
          flushedAt, reported, calls>>

\* ---- helpers ----
RECURSIVE SeqsUpTo(_, _)
SeqsUpTo(S, n) ==
  IF n = 0 THEN {<< >>}
  ELSE LET shorter == SeqsUpTo(S, n - 1)
       IN shorter \cup { Append(s, x) : s \in { t \in shorter : Len(t) = n - 1 }, x \in S }

Requests == { [Kind |-> k, Entities |-> es] : k \in Kinds, es \in SeqsUpTo(EntityPool, MaxEntities) }

LenOf(entity) == entity.len

RECURSIVE SumLen(_)
SumLen(es) == IF es = << >> THEN 0 ELSE LenOf(Head(es)) + SumLen(Tail(es))

\* ---- GetProjectID ----
GetProjectIDAlwaysSet ==
  [id |-> env, err |-> "nil"]
GetProjectID ==
  IF env = "" THEN [id |-> "", err |-> "NotFound"] ELSE [id |-> env, err |-> "nil"]

\* ---- LogError: reports the error and returns it ----
LogError(log, e) == Append(log, e)

\* ---- sendRequest: the outcomes of one call ----
SendRequestChecksStatus ==
  IF GetProjectID.err # "nil"
  THEN { [err |-> GetProjectID.err, built |-> FALSE, status |-> 0] }
  ELSE { [err |-> "Transport", built |-> TRUE, status |-> 0] }
       \cup { [err |-> IF s >= 300 THEN "Transport" ELSE "nil", built |-> TRUE, status |-> s] :
               s \in Statuses }
SendRequest ==
  IF GetProjectID.err # "nil"
  THEN { [err |-> GetProjectID.err, built |-> FALSE, status |-> 0] }
  ELSE { [err |-> "Transport", built |-> TRUE, status |-> 0] }
       \cup { [err |-> "nil", built |-> TRUE, status |-> s] : s \in Statuses }

\* ---- pieces of WriteToDatastore ----
InitialInOperationSet == TRUE
InitialInOperation == FALSE

MegabytesFixed(b) == b \div 1000000
Megabytes(b) == b \div Divisor

ShouldFlush(megabytes) == megabytes >= Threshold

ReturnsOnErrorNever(e) == FALSE
ReturnsOnError(e) == e # "nil"

InOperationAfterFlushKept == TRUE
InOperationAfterFlush == FALSE

FlushedEntitiesCarry(entity) == <<entity>>
FlushedEntities(entity) == << >>

\* what one sendRequest call puts on the wire, with its outcome
TransmissionDedup(site, r) ==
  LET delivered == { e \in EntityPool :
                       \E n \in 1..Len(calls) : \E j \in 1..Len(calls[n].sendLog) :
                         /\ calls[n].sendLog[j].err = "nil"
                         /\ \E k \in 1..Len(calls[n].sendLog[j].Entities) :
                              calls[n].sendLog[j].Entities[k] = e }
  IN [site |-> site, Kind |-> request.Kind,
      Entities |-> SelectSeq(queue, LAMBDA e : e \notin delivered),
      err |-> r.err, built |-> r.built, status |-> r.status]
Transmission(site, r) ==
  [site |-> site, Kind |-> request.Kind, Entities |-> queue,
   err |-> r.err, built |-> r.built, status |-> r.status]

\* ---- state after construction: the caller has just invoked WriteToDatastore ----
Init ==
  /\ request \in Requests
  /\ env \in ProjectIDs
  /\ pc = "loop"
  /\ i = 1
  /\ inOperation = InitialInOperation
  /\ bits = 0
  /\ queue = << >>
  /\ err = "nil"
  /\ sendLog = << >>
  /\ flushedAt = {}
  /\ reported = << >>
  /\ calls = << >>

\* one loop iteration that takes the else branch (append)
LoopAppend ==
  /\ pc = "loop"
  /\ i <= Len(request.Entities)
  /\ LET entity == request.Entities[i]
         newBits == bits + LenOf(entity)
     IN /\ ~ShouldFlush(Megabytes(newBits))
        /\ inOperation' = TRUE
        /\ bits' = newBits
        /\ queue' = Append(queue, entity)
        /\ i' = i + 1
  /\ UNCHANGED <<request, env, pc, err, sendLog, flushedAt, reported, calls>>

\* one loop iteration that takes the flush branch
LoopFlush ==
  /\ pc = "loop"
  /\ i <= Len(request.Entities)
  /\ LET entity == request.Entities[i]
         newBits == bits + LenOf(entity)
     IN /\ ShouldFlush(Megabytes(newBits))
        /\ bits' = newBits
        /\ flushedAt' = flushedAt \cup {i}
        /\ \E r \in SendRequest :
             /\ sendLog' = Append(sendLog, Transmission("threshold", r))
             /\ IF ReturnsOnError(r.err)
                THEN /\ pc' = "done"
                     /\ err' = r.err
                     /\ reported' = LogError(LogError(reported, r.err), r.err)
                     /\ inOperation' = TRUE
                     /\ UNCHANGED <<queue, i>>
                ELSE /\ inOperation' = InOperationAfterFlush
                     /\ queue' = FlushedEntities(entity)
                     /\ i' = i + 1
                     /\ reported' = IF r.err # "nil" THEN LogError(reported, r.err) ELSE reported
                     /\ UNCHANGED <<pc, err>>
  /\ UNCHANGED <<request, env, calls>>

\* after the loop, still in operation: the last flush
FinalFlush ==
  /\ pc = "loop"
  /\ i > Len(request.Entities)
  /\ inOperation
  /\ \E r \in SendRequest :
       /\ sendLog' = Append(sendLog, Transmission("final", r))
       /\ pc' = "done"
       /\ IF ReturnsOnError(r.err)
          THEN /\ err' = r.err
               /\ reported' = LogError(LogError(reported, r.err), r.err)
               /\ UNCHANGED inOperation
          ELSE /\ err' = "nil"
               /\ reported' = IF r.err # "nil" THEN LogError(reported, r.err) ELSE reported
               /\ inOperation' = FALSE
  /\ UNCHANGED <<request, env, i, bits, queue, flushedAt, calls>>

\* after the loop, not in operation: return nil
Return ==
  /\ pc = "loop"
  /\ i > Len(request.Entities)
  /\ ~inOperation
  /\ pc' = "done"
  /\ err' = "nil"
  /\ UNCHANGED <<request, env, i, inOperation, bits, queue, sendLog, flushedAt, reported, calls>>

\* the caller invokes WriteToDatastore again with the same request
Reinvoke ==
  /\ pc = "done"
  /\ Len(calls) + 1 < MaxInvocations
  /\ calls' = Append(calls, [sendLog |-> sendLog, err |-> err])
  /\ pc' = "loop"
  /\ i' = 1
  /\ inOperation' = InitialInOperation
  /\ bits' = 0
  /\ queue' = << >>
  /\ err' = "nil"
  /\ sendLog' = << >>
  /\ flushedAt' = {}
  /\ UNCHANGED <<request, env, reported>>

Next == LoopAppend \/ LoopFlush \/ FinalFlush \/ Return \/ Reinvoke

Spec == Init /\ [][Next]_vars

TypeOK ==
  /\ request \in Requests
  /\ env \in ProjectIDs
  /\ pc \in {"loop", "done"}
  /\ i \in 1..(Len(request.Entities) + 1)
  /\ inOperation \in BOOLEAN
  /\ bits \in Nat
  /\ err \in {"nil", "NotFound", "Transport"}
  /\ Len(calls) < MaxInvocations

\* ---- vocabulary of the properties ----
N == Len(request.Entities)

\* the logs of the invocations made so far, the running one last
AllLogs == [c \in 1..(Len(calls) + 1) |->
              IF c <= Len(calls) THEN calls[c].sendLog ELSE sendLog]

Failed(t) == t.err # "nil"

RECURSIVE ConcatEntities(_)
ConcatEntities(log) ==
  IF log = << >> THEN << >> ELSE Head(log).Entities \o ConcatEntities(Tail(log))

RECURSIVE Without(_, _, _)
Without(es, idx, drop) ==
  IF es = << >> THEN << >>
  ELSE (IF idx \in drop THEN << >> ELSE <<Head(es)>>) \o Without(Tail(es), idx + 1, drop)

\* the running byte count after the first k entities, as the claim words it
RunningBytes(k) == SumLen(SubSeq(request.Entities, 1, k))
NeverReaches == \A k \in 1..N : RunningBytes(k) \div 8000000 < 31

\* C1: every transmission handed to the HTTP client carries entities whose
\* lengths sum to at most 31,000,000 bytes.
C1_ChunksUnderCeiling ==
  \A j \in 1..Len(sendLog) :
    sendLog[j].built => SumLen(sendLog[j].Entities) <= Ceiling

C3_EmptyInputNoTransmission ==
  N = 0 => /\ sendLog = << >>
           /\ reported = << >>
           /\ err = "nil"

C3_Witness ==
  /\ pc = "done" /\ N = 0 /\ env = "" /\ sendLog = << >> /\ err = "nil"

C5_FailureAbortsDispatch ==
  /\ \A j \in 1..Len(sendLog) :
       Failed(sendLog[j]) => /\ j = Len(sendLog)
                             /\ pc = "done"
                             /\ err = sendLog[j].err
  /\ (pc = "done" /\ err # "nil")
       => /\ Len(sendLog) >= 1
          /\ Failed(sendLog[Len(sendLog)])
          /\ Len(ConcatEntities(sendLog)) <= i - 1
  /\ \A c \in 1..Len(calls) :
       \A j \in 1..Len(calls[c].sendLog) :
         Failed(calls[c].sendLog[j]) => /\ j = Len(calls[c].sendLog)
                                        /\ calls[c].err = calls[c].sendLog[j].err

C5_Witness ==
  /\ pc = "done" /\ err = "Transport"
  /\ Len(sendLog) = 2
  /\ ~Failed(sendLog[1])
  /\ Failed(sendLog[2])
  /\ i < N

\* C6: without the project identifier no HTTP request is built or sent, and
\* the call returns NotFound at the first flush it attempts.
C6_NoProjectNoTransmission ==
  env = "" => /\ Len(sendLog) <= 1
              /\ \A j \in 1..Len(sendLog) :
                   /\ ~sendLog[j].built
                   /\ sendLog[j].err = "NotFound"
                   /\ pc = "done" /\ err = "NotFound"
              /\ (pc = "done" /\ err = "nil") => sendLog = << >>

C6_Witness ==
  /\ env = "" /\ pc = "done" /\ err = "NotFound"
  /\ Len(sendLog) = 1 /\ ~sendLog[1].built
  /\ i < N

C8_FlushResetsCounter ==
  /\ (pc = "loop" /\ i > 1 /\ (i - 1) \in flushedAt) => (bits = 0 /\ queue = << >>)
  /\ \A k \in flushedAt :
       (k > 1 /\ (k - 1) \in flushedAt) => LenOf(request.Entities[k]) \div 8000000 >= 31

\* C9: an entity that alone reaches the threshold is sent in a transmission
\* whose entity list is exactly that entity.
C9_OversizedEntityForwarded ==
  (pc = "done" /\ err = "nil")
    => \A k \in 1..N :
         LenOf(request.Entities[k]) \div 8000000 >= 31
           => \E j \in 1..Len(sendLog) : sendLog[j].Entities = <<request.Entities[k]>>

\* C10: at loop exit inOperation is true exactly when the last entity was
\* appended, which is exactly when the accumulator is non-empty; the final
\* flush never sends an empty list and nothing pending is left unsent.
C10_FinalFlushIffPending ==
  /\ (pc = "loop" /\ i > N)
       => /\ inOperation <=> (N >= 1 /\ N \notin flushedAt)
          /\ inOperation <=> (queue # << >>)
  /\ \A j \in 1..Len(sendLog) :
       sendLog[j].site = "final" => sendLog[j].Entities # << >>
  /\ (pc = "done" /\ err = "nil")
       => (queue = << >> \/ (sendLog # << >> /\ sendLog[Len(sendLog)].Entities = queue))

C10_Witness ==
  /\ pc = "loop" /\ i > N /\ N >= 2
  /\ ~inOperation /\ queue = << >>
  /\ N \in flushedAt
  /\ sendLog # << >> /\ sendLog[1].Entities # << >>

\* C11: a transmission fails only on a transport error of the HTTP call: a
\* response with any status, also a non-2xx one, counts as success, the
\* dispatch goes on and returns nil when no transport error occurs.
C11_StatusNotInspected ==
  /\ \A j \in 1..Len(sendLog) :
       sendLog[j].status # 0
         => /\ ~Failed(sendLog[j])
            /\ (j < Len(sendLog) \/ pc = "loop" \/ err = "nil")
  /\ (pc = "done" /\ \A j \in 1..Len(sendLog) : sendLog[j].status # 0) => err = "nil"
  /\ (pc = "done" /\ err # "nil")
       => /\ sendLog # << >>
          /\ sendLog[Len(sendLog)].status = 0

C11_Witness ==
  /\ pc = "done" /\ err = "nil"
  /\ Len(sendLog) = 2
  /\ sendLog[1].status = 500 /\ sendLog[1].Entities # << >>
  /\ sendLog[2].status = 500
  /\ reported = << >>

\* C12: every transmission carries at least one entity: sendRequest is never
\* called with an empty Entities list, by a threshold flush or the final one.
C12_NoEmptyTransmission ==
  \A j \in 1..Len(sendLog) : sendLog[j].Entities # << >>
====
